---- MODULE Spec2Model ----
(***************************************************************************)
(* KrankyBearNotify: delivery-channel selection (main, showNotification)   *)
(* and multi-user dispatch (showNotificationToUsers and the per-platform   *)
(* showNotificationAs*User) of one invocation of the notifier.             *)
(*                                                                         *)
(* One behaviour is one process: Init fixes the platform, the command      *)
(* line, the host facts the probes read and the file modes; the actions    *)
(* are the blocks of main() between two external operations (a channel     *)
(* attempt, a child launch, a chmod timer), in source order.               *)
(***************************************************************************)
EXTENDS Integers, Sequences, FiniteSets, TLC

\* ------------------------------------------------------------------ bounds
MaxSessions == 2          \* login sessions listed by the session utility
DirDepth    == 1          \* directories between "/" and the executable
MaxClock    == 36         \* seconds a shown window is followed for
MaxLen      == 3          \* characters in a -title value
MaxWait     == 8          \* seconds the dispatcher is followed for

\* ------------------------------------------------------------ value sets
Users     == {"alice", "bob"}
Timeouts  == {5}
\* -timeout values for which the window timers are followed second by second:
\* none, one below and one above the floor of the zombie timeout
ShowTimeouts == {0, 5, 20}

\* command-line switches of main() that steer delivery (main.go:185-189)
Flags == {"-force-wall", "-win-webview", "-win-basic", "-gui-only", "-target-user"}

\* the four delivery channels (spec 4.2): Fyne, WebView, MessageBox, wall
Channels    == {"primary", "secondary", "minimal", "broadcast"}
GuiChannels == {"primary", "secondary", "minimal"}

\* files whose permissions showNotificationAsUser may relax
ExePath  == <<"exe", 0>>
IconPath == <<"icon", 0>>
DirPaths == {<<"dir", k>> : k \in 1..DirDepth}
Paths    == {ExePath, IconPath} \cup DirPaths

ExeModes  == {\o700, \o750, \o755}
DirModes  == {\o700, \o755}
IconModes == {\o600, \o644}

\* ----------------------------------------------------------- bit helpers
RECURSIVE BitAnd(_, _)
BitAnd(a, b) ==
    IF a = 0 \/ b = 0 THEN 0
    ELSE (a % 2) * (b % 2) + 2 * BitAnd(a \div 2, b \div 2)

RECURSIVE BitOr(_, _)
BitOr(a, b) ==
    IF a = 0 THEN b
    ELSE IF b = 0 THEN a
    ELSE (IF a % 2 = 1 \/ b % 2 = 1 THEN 1 ELSE 0) + 2 * BitOr(a \div 2, b \div 2)

\* Len-bounded sequences over S
SeqUpTo(S, n) == UNION {[1..k -> S] : k \in 0..n}

\* ------------------------------------------------------------------ state
VARIABLES
    host,          \* platform and the host facts the probes read
    args,          \* switches present on the command line (os.Args)
    req,           \* the NotificationRequest: timeout, icon given
    rawSessions,   \* what the session-listing utility reports
    mode,          \* current permission bits of every path
    mode0,         \* permission bits before the process started
    pc,            \* position of main()
    sessions,      \* targets returned by session discovery
    idx,           \* loop index of showNotificationToUsers
    successCount,  \* showNotificationToUsers: launches that returned nil
    lastErr,       \* showNotificationToUsers: some launch returned an error
    guiSuccess,    \* main: showNotificationToUsers returned nil
    wallSuccess,   \* main: elevated wall broadcast returned nil
    attempts,      \* channels this process attempted, in order
    results,       \* outcome of each attempt, same order
    dispatchCalls, \* calls of showNotificationToUsers
    children,      \* child processes launched, in order
    pending,       \* macOS: launch in progress whose deferred chmod is due
    timers,        \* restore goroutines started and not yet run
    grants,        \* every successful relaxing chmod (history)
    restoreLog,    \* every restoring chmod (history)
    spawnFailed,   \* sessions whose launch returned an error (history)
    probed,        \* results of isGUIAvailable / isOpenGLAvailable, once read
    exitCode,      \* -1 while running, else the process exit code
    now,           \* seconds since showNotification started its timers
    zombieAt,      \* second at which the zombie-prevention goroutine wakes, or -1
    autoAt,        \* second at which the auto-close goroutine wakes, or -1
    hung,          \* Fyne runs but never shows the window nor handles events
    closedAt,      \* second at which the window was closed, or -1
    closedBy,      \* "none", "user" (button or window close) or "timer"
    zombieFires,   \* times the zombie-prevention goroutine forced an exit
    callAt,        \* second at which the launch call in progress began, or -1
    osArgs,        \* flag values on the command line of the parent and of a child
    held,          \* the request each process holds after processing its flags
    wgl,           \* the Windows OpenGL probe: calls made, handles, result
    iconDir        \* where the icon lies and the mode of its own directory

textVars == <<osArgs, held>>
hostVars == <<host, args, req, rawSessions, mode0, osArgs, held, wgl, iconDir>>
permVars == <<mode, timers, grants, restoreLog, pending>>
loopVars == <<sessions, idx, successCount, lastErr, spawnFailed, children, callAt>>
mainVars == <<guiSuccess, wallSuccess, attempts, results, dispatchCalls, probed>>
windowVars == <<zombieAt, autoAt, hung, closedAt, closedBy, zombieFires>>
timeVars == <<now, zombieAt, autoAt, hung, closedAt, closedBy, zombieFires>>
vars == <<host, args, req, rawSessions, mode, mode0, pc, sessions, idx,
          successCount, lastErr, guiSuccess, wallSuccess, attempts, results,
          dispatchCalls, children, pending, timers, grants, restoreLog,
          spawnFailed, probed, exitCode, now, zombieAt, autoAt, hung,
          closedAt, closedBy, zombieFires, callAt, osArgs, held, wgl,
          iconDir>>

\* ------------------------------------------------------------- the probes
\* gui_check_linux.go shouldShowToOtherUsers: root without a display of its own
ShouldShowLinux(h, a) == h.euid0 /\ ~h.hasDisplay

\* gui_check_darwin.go shouldShowToOtherUsers: running as root
ShouldShowDarwin(h, a) == h.euid0

\* gui_check_windows.go shouldShowToOtherUsers: the marker (environment or
\* switch) wins, then SYSTEM, then an elevated Administrator
ShouldShowWindows(h, a) ==
    IF h.envTargetUser THEN FALSE
    ELSE IF "-target-user" \in a THEN FALSE
    ELSE IF h.isSystem THEN TRUE
    ELSE h.isAdmin

\* the build selects one implementation per platform (go:build tags)
ShouldShow(h, a) ==
    CASE h.goos = "linux"   -> ShouldShowLinux(h, a)
      [] h.goos = "darwin"  -> ShouldShowDarwin(h, a)
      [] h.goos = "windows" -> ShouldShowWindows(h, a)
      [] OTHER              -> FALSE

shouldShowToOtherUsers == ShouldShow(host, args)

\* isRunningAsSystem: whoami contains "system" on Windows, stub FALSE elsewhere
isRunningAsSystem == host.goos = "windows" /\ host.isSystem

\* a wall probe that looks for the tool on every platform
isWallAvailable_LooksEverywhere == host.wallOnPath

\* isWallAvailable: LookPath("wall") on Linux, the stub says FALSE elsewhere
isWallAvailable == host.goos = "linux" /\ host.wallOnPath

\* isWebViewAvailable: TRUE in a webview build, FALSE in the stub build
isWebViewAvailable == host.webviewBuilt

\* an OpenGL probe that tests the graphics stack on every platform
isOpenGLAvailable_ProbesEverywhere == host.glFunctional

\* isOpenGLAvailable: the WGL handshake on Windows, TRUE elsewhere
isOpenGLAvailable == IF host.goos = "windows" THEN host.glFunctional ELSE TRUE

\* gui_check_linux.go hasLoginctlGraphicalSession
hasLoginctlGraphicalSession ==
    \E k \in 1..Len(rawSessions) : rawSessions[k].graphical

\* gui_check_linux.go isLinuxGUIAvailable
isLinuxGUIAvailable ==
    host.hasDisplay \/ host.guiHost \/ hasLoginctlGraphicalSession

\* main.go isGUIAvailable
isGUIAvailable ==
    CASE host.goos = "linux"   -> isLinuxGUIAvailable
      [] host.goos = "darwin"  -> host.guiHost
      [] host.goos = "windows" -> host.guiHost
      [] OTHER                 -> FALSE

\* ------------------------------------------------------- session discovery
\* getDisplayForSession (Linux): the Display property of the session or of
\* one of the user's processes, and ":0" as the last resort
getDisplayForSession(s) == IF s.meta THEN ":1" ELSE ":0"

\* getGraphicalSessions (Linux): the x11/wayland sessions whose display is
\* not empty, one entry per session
getGraphicalSessions ==
    SelectSeq(rawSessions, LAMBDA s : s.graphical /\ getDisplayForSession(s) # "")

\* getMacGUIUsers: the console user, kept whatever getUIDForUser returned
getMacGUIUsers == rawSessions

\* getWindowsGUIUsers: quser lines in which a numeric session id was found
getWindowsGUIUsers == SelectSeq(rawSessions, LAMBDA s : s.meta)

Discover ==
    CASE host.goos = "linux"   -> getGraphicalSessions
      [] host.goos = "darwin"  -> getMacGUIUsers
      [] host.goos = "windows" -> getWindowsGUIUsers
      [] OTHER                 -> <<>>

\* ------------------------------------------------------------------- Init
LinuxHosts ==
    [goos : {"linux"}, euid0 : BOOLEAN, hasDisplay : BOOLEAN, guiHost : BOOLEAN,
     envTargetUser : {FALSE}, isSystem : {FALSE}, isAdmin : {FALSE},
     glFunctional : {TRUE}, webviewBuilt : BOOLEAN, wallOnPath : BOOLEAN]

DarwinHosts ==
    [goos : {"darwin"}, euid0 : BOOLEAN, hasDisplay : {FALSE}, guiHost : BOOLEAN,
     envTargetUser : {FALSE}, isSystem : {FALSE}, isAdmin : {FALSE},
     glFunctional : {TRUE}, webviewBuilt : BOOLEAN, wallOnPath : {FALSE}]

WindowsHosts ==
    [goos : {"windows"}, euid0 : {FALSE}, hasDisplay : {FALSE}, guiHost : BOOLEAN,
     envTargetUser : BOOLEAN, isSystem : BOOLEAN, isAdmin : BOOLEAN,
     glFunctional : BOOLEAN, webviewBuilt : BOOLEAN, wallOnPath : {FALSE}]

OtherHosts ==
    [goos : {"other"}, euid0 : {FALSE}, hasDisplay : {FALSE}, guiHost : {FALSE},
     envTargetUser : {FALSE}, isSystem : {FALSE}, isAdmin : {FALSE},
     glFunctional : {TRUE}, webviewBuilt : BOOLEAN, wallOnPath : {FALSE}]

Hosts == LinuxHosts \cup DarwinHosts \cup WindowsHosts \cup OtherHosts

\* the invocation gets as far as calling showNotificationToUsers
\* (main.go:371-444): no force-wall exit, no fatal platform check before it
ReachesDispatch(h, a) ==
    /\ ShouldShow(h, a)
    /\ "-force-wall" \notin a
    /\ (h.goos # "windows" => a \cap {"-win-webview", "-win-basic"} = {})

\* a host fact the process never reads keeps one fixed value: the session
\* table and the file modes are read only by the dispatcher, and the webview
\* build tag is read only where isOpenGLAvailable can say FALSE (Windows)
RawSessionsOf(h, a) ==
    IF ~ReachesDispatch(h, a) THEN {<<>>}
    ELSE CASE h.goos = "linux"   ->
                SeqUpTo([user : Users, graphical : BOOLEAN, meta : {TRUE}], MaxSessions)
           [] h.goos = "darwin"  ->
                SeqUpTo([user : Users, graphical : {TRUE}, meta : BOOLEAN], 1)
           [] h.goos = "windows" ->
                SeqUpTo([user : Users, graphical : {TRUE}, meta : BOOLEAN], MaxSessions)
           [] OTHER -> {<<>>}

DefaultModes == [p \in Paths |-> IF p = IconPath THEN \o644 ELSE \o755]

ModesOf(h, a, r) ==
    IF ~ReachesDispatch(h, a) \/ h.goos \notin {"linux", "darwin"} THEN {DefaultModes}
    ELSE {m \in [Paths -> ExeModes \cup DirModes \cup IconModes] :
            /\ m[ExePath] \in (IF h.goos = "linux" THEN ExeModes ELSE {\o755})
            /\ \A d \in DirPaths :
                 m[d] \in (IF h.goos = "linux" THEN DirModes ELSE {\o755})
            /\ m[IconPath] \in (IF r.icon THEN IconModes ELSE {\o644})}

\* gui_check_linux.go:421-428  a relative -image is looked up in the directory
\* of the executable, so its directories are those of the executable
IconBesideExe == [own |-> FALSE, mode |-> \o755]

\* an absolute -image may lie in a directory of its own, which the dispatcher
\* never stats nor chmods (gui_check_linux.go:343-381 walks exePath only)
IconDirsOf(h, a, r) ==
    IF ReachesDispatch(h, a) /\ h.goos = "linux" /\ r.icon
      THEN {IconBesideExe} \cup {[own |-> TRUE, mode |-> m] : m \in DirModes}
      ELSE {IconBesideExe}

\* the handshake of gui_opengl_windows.go:68-137, in the order of the code
GLSteps == <<"Load", "Find", "GetDC", "ChoosePixelFormat", "SetPixelFormat",
             "wglCreateContext", "wglMakeCurrent">>

GLStepSet == {GLSteps[i] : i \in 1..Len(GLSteps)}

\* the probe before its first call, on a host where every call would succeed
NoProbe ==
    wgl = [env |-> [c \in GLStepSet \cup {"unbind"} |-> TRUE], calls |-> <<>>,
           dc |-> "none", ctx |-> "none", current |-> FALSE, ret |-> "pending"]

\* the flag values as the flag package leaves them when a flag is absent
\* (main.go:174-179; texts are not followed where only the channel matters)
NoText ==
    /\ osArgs = [parent |-> [given |-> FALSE], child |-> [given |-> FALSE]]
    /\ held = [parent |-> [set |-> FALSE], child |-> [set |-> FALSE]]

\* no window timer exists before showNotification runs
NoTimers ==
    /\ now = 0
    /\ zombieAt = -1
    /\ autoAt = -1
    /\ hung = FALSE
    /\ closedAt = -1
    /\ closedBy = "none"
    /\ zombieFires = 0

Init ==
    /\ args \in SUBSET Flags
    /\ host \in Hosts
    /\ req \in [timeout : Timeouts, icon : BOOLEAN]
    /\ (ReachesDispatch(host, args) /\ host.goos \in {"linux", "darwin"}
          => ~host.webviewBuilt)
    /\ rawSessions \in RawSessionsOf(host, args)
    /\ mode0 \in ModesOf(host, args, req)
    /\ mode = mode0
    /\ pc = "forceWall"
    /\ sessions = <<>>
    /\ idx = 0
    /\ callAt = -1
    /\ successCount = 0
    /\ lastErr = FALSE
    /\ guiSuccess = FALSE
    /\ wallSuccess = FALSE
    /\ attempts = <<>>
    /\ results = <<>>
    /\ dispatchCalls = 0
    /\ children = <<>>
    /\ pending = {}
    /\ timers = {}
    /\ grants = {}
    /\ restoreLog = {}
    /\ spawnFailed = {}
    /\ probed = [gui |-> "unread", opengl |-> "unread"]
    /\ exitCode = -1
    /\ NoTimers
    /\ NoText
    /\ NoProbe
    /\ iconDir \in IconDirsOf(host, args, req)

\* ------------------------------------------------------------ termination
\* os.Exit(code), log.Fatal (code 1), return from main (code 0), or an
\* unrecovered panic (code 2): every goroutine of the process dies with it
Exit(code) ==
    /\ pc' = "exited"
    /\ exitCode' = code

Attempt(ch, res) ==
    /\ attempts' = Append(attempts, ch)
    /\ results' = Append(results, res)

\* results a backend call can give back to its caller
WallResults    == {"nil", "error"}     \* broadcastWallMessage: wall exit status
WebViewResults == {"nil", "panic"}     \* showWebViewNotification returns only nil

\* ---------------------------------------------------------- main: overrides
\* a -force-wall check that looks at the platform only
forceWallFatal_PlatformOnly == host.goos # "linux"

\* main.go:372-377  -force-wall is fatal off Linux and without the wall tool
forceWallFatal == host.goos # "linux" \/ ~isWallAvailable

\* a -force-wall block that reports success whatever wall returned
forceWallExit_AlwaysZero(r) == 0

\* main.go:379-383  log.Fatalf when the broadcast failed, os.Exit(0) otherwise
forceWallExit(r) == IF r = "nil" THEN 0 ELSE 1

\* main.go:370-384  -force-wall
ForceWall ==
    /\ pc = "forceWall"
    /\ UNCHANGED timeVars
    /\ UNCHANGED <<hostVars, permVars, loopVars, guiSuccess, wallSuccess,
                   dispatchCalls, probed>>
    /\ IF "-force-wall" \notin args
         THEN pc' = "winWebView" /\ UNCHANGED <<attempts, results, exitCode>>
       ELSE IF forceWallFatal
         THEN Exit(1) /\ UNCHANGED <<attempts, results>>
       ELSE \E r \in WallResults :
              /\ Attempt("broadcast", r)
              /\ Exit(forceWallExit(r))

\* a -win-webview block that stands back when -win-basic is given as well
winWebViewTaken_YieldsToBasic == "-win-webview" \in args /\ "-win-basic" \notin args

\* main.go:388  the -win-webview block is entered on its own flag alone, before
\* the -win-basic block (main.go:414) is looked at
winWebViewTaken == "-win-webview" \in args

\* main.go:386-410  -win-webview
WinWebView ==
    /\ pc = "winWebView"
    /\ UNCHANGED timeVars
    /\ UNCHANGED <<hostVars, permVars, loopVars, guiSuccess, wallSuccess,
                   dispatchCalls, probed>>
    /\ IF ~winWebViewTaken
         THEN pc' = "winBasic" /\ UNCHANGED <<attempts, results, exitCode>>
       ELSE IF host.goos # "windows"
         THEN Exit(1) /\ UNCHANGED <<attempts, results>>
       ELSE IF shouldShowToOtherUsers
         THEN pc' = "winBasic" /\ UNCHANGED <<attempts, results, exitCode>>
       ELSE IF ~isWebViewAvailable
         THEN Exit(1) /\ UNCHANGED <<attempts, results>>
       ELSE \E r \in WebViewResults :
              /\ Attempt("secondary", r)
              /\ Exit(IF r = "nil" THEN 0 ELSE 2)

\* main.go:412-432  -win-basic; showWindowsMessageBox returns nil
WinBasic ==
    /\ pc = "winBasic"
    /\ UNCHANGED timeVars
    /\ UNCHANGED <<hostVars, permVars, loopVars, guiSuccess, wallSuccess,
                   dispatchCalls, probed>>
    /\ IF "-win-basic" \notin args
         THEN pc' = "elevated" /\ UNCHANGED <<attempts, results, exitCode>>
       ELSE IF host.goos # "windows"
         THEN Exit(1) /\ UNCHANGED <<attempts, results>>
       ELSE IF shouldShowToOtherUsers
         THEN pc' = "elevated" /\ UNCHANGED <<attempts, results, exitCode>>
       ELSE /\ Attempt("minimal", "nil")
            /\ Exit(0)

\* ------------------------------------------------------ main: elevated path
\* main.go:434-450 with showNotificationToUsers up to its loop
\* (gui_check_linux.go:307-311, gui_check_darwin.go:59-63,
\* gui_check_windows.go:93-97)
Elevated ==
    /\ pc = "elevated"
    /\ UNCHANGED timeVars
    /\ UNCHANGED <<hostVars, permVars, guiSuccess, wallSuccess, attempts,
                   results, probed, exitCode, successCount, lastErr,
                   spawnFailed, children, callAt>>
    /\ IF ~shouldShowToOtherUsers
         THEN pc' = "probe" /\ UNCHANGED <<sessions, idx, dispatchCalls>>
       ELSE IF "-force-wall" \in args
         THEN pc' = "elevWall" /\ UNCHANGED <<sessions, idx, dispatchCalls>>
       ELSE /\ dispatchCalls' = dispatchCalls + 1
            /\ sessions' = Discover
            /\ idx' = 1
            /\ pc' = "dispatch"

\* the switches and options on a child's command line
BaseChildArgs ==
    {"-title", "-message", "-button", "-timeout", "-width", "-height"}

\* gui_check_linux.go:487-500  cmdArgs
LinuxChildArgs(withIcon) ==
    BaseChildArgs \cup (IF withIcon THEN {"-image"} ELSE {})

\* gui_check_darwin.go:93-103,143  args after the executable
MacChildArgs(withIcon) ==
    BaseChildArgs \cup (IF withIcon THEN {"-image"} ELSE {})

\* gui_check_windows.go:129-180  args; the mode switches of the parent pass through
WindowsChildArgs(withIcon) ==
    {"-target-user"} \cup (args \cap {"-win-webview", "-win-basic"})
      \cup BaseChildArgs \cup (IF withIcon THEN {"-image"} ELSE {})

\* gui_check_linux.go:356,389 (r-x for other) and :453 (r for other)
NeedsPermFix(p, m) ==
    IF p = IconPath THEN BitAnd(m, \o004) = 0
    ELSE BitAnd(m, \o005) # \o005

\* a relaxation that opens the path to everybody for everything
NewPerm_AllBits(p, m) == BitOr(m, \o777)

\* gui_check_linux.go:358,394 (| 0555) and :464 (| 0004)
NewPerm(p, m) ==
    IF p = IconPath THEN BitOr(m, \o004) ELSE BitOr(m, \o555)

\* a restore closure that captured the relaxed mode instead of the original
RestorePerm_CapturesNew(originalPerm, newPerm) == newPerm

\* the mode a restore closure writes: the originalPerm it captured
\* (gui_check_linux.go:368-371, 405, 472; gui_check_darwin.go:141)
RestorePerm(originalPerm, newPerm) == originalPerm

\* paths showNotificationAsUser finds in need of relaxing (root only)
NeedFix ==
    IF ~host.euid0 THEN {}
    ELSE {p \in DirPaths \cup {ExePath} : NeedsPermFix(p, mode[p])}
           \cup (IF req.icon /\ NeedsPermFix(IconPath, mode[IconPath])
                 THEN {IconPath} ELSE {})

GrantsFor(ps) ==
    {[path |-> p, before |-> mode[p], after |-> NewPerm(p, mode[p]),
      session |-> idx] : p \in ps}

\* seconds a restore closure sleeps beyond the timeout
\* (gui_check_linux.go:370, 404, 470)
RestoreGrace == 2

\* the second at which a restore goroutine started at t0 wakes:
\* time.Sleep(time.Duration(timeout+2) * time.Second)
restoreDue(t0) == t0 + req.timeout + RestoreGrace

\* a launch that runs the restore sleep itself before it returns
startBlocksFor_InlineSleep == req.timeout + RestoreGrace

\* seconds showNotificationAsUser blocks: cmd.Start() does not wait for sudo
\* and the restores are handed to goroutines (gui_check_linux.go:528-542)
startBlocksFor == 0

\* a dispatch loop that gives up at the first launch error
nextIdx_BreakOnError(err) == IF err THEN Len(sessions) + 1 ELSE idx + 1

\* the loop of showNotificationToUsers goes on to the next session whatever
\* the launch returned (gui_check_linux.go:316-323)
nextIdx(err) == idx + 1

\* gui_check_linux.go:333-545 showNotificationAsUser, one loop iteration of
\* showNotificationToUsers (:316-323): relax, spawn with sudo, and only after a
\* successful Start() hand the restores to goroutines
LaunchLinux ==
    /\ pc = "dispatch"
    /\ now' = now + startBlocksFor
    /\ UNCHANGED <<windowVars, callAt>>
    /\ host.goos = "linux"
    /\ idx <= Len(sessions)
    /\ UNCHANGED <<hostVars, mainVars, sessions, pending, restoreLog, pc, exitCode>>
    /\ \E chmodOK \in BOOLEAN, started \in BOOLEAN :
       LET okSet == IF chmodOK THEN NeedFix ELSE {} IN
         /\ (NeedFix = {} => chmodOK)
         /\ mode' = [p \in Paths |->
                       IF p \in okSet THEN NewPerm(p, mode[p]) ELSE mode[p]]
         /\ grants' = grants \cup GrantsFor(okSet)
         /\ IF started
              THEN /\ timers' = timers \cup
                        {[path |-> p,
                          perm |-> RestorePerm(mode[p], NewPerm(p, mode[p])),
                          session |-> idx, due |-> restoreDue(now)] : p \in okSet}
                   /\ successCount' = successCount + 1
                   /\ children' = Append(children,
                        [user |-> sessions[idx].user, via |-> "sudo",
                         argv |-> LinuxChildArgs(req.icon),
                         session |-> idx, at |-> now, ret |-> now'])
                   /\ UNCHANGED <<lastErr, spawnFailed>>
              ELSE /\ lastErr' = TRUE
                   /\ spawnFailed' = spawnFailed \cup {idx}
                   /\ UNCHANGED <<timers, successCount, children>>
         /\ idx' = nextIdx(~started)

\* a restore goroutine wakes after its sleep (timeout+2 seconds) and writes
\* the captured mode (gui_check_linux.go:369-376, 403-410, 469-477); it can
\* only run while the process is alive
Restore(t) ==
    /\ mode' = [mode EXCEPT ![t.path] = t.perm]
    /\ timers' = timers \ {t}
    /\ restoreLog' = restoreLog \cup
         {[path |-> t.path, written |-> t.perm, session |-> t.session,
           at |-> now]}
    /\ UNCHANGED <<hostVars, mainVars, loopVars, grants, pending, pc, exitCode>>

\* the same without a clock: a started restore may run at any later moment
RestoreFire ==
    /\ pc # "exited"
    /\ UNCHANGED timeVars
    /\ \E t \in timers : Restore(t)

\* gui_check_darwin.go:85-148 showNotificationAsMacUser up to the blocking
\* launchctl call: the icon is relaxed (chmod result ignored) and the
\* restoring chmod is deferred
LaunchMac ==
    /\ pc = "dispatch"
    /\ UNCHANGED timeVars
    /\ host.goos = "darwin"
    /\ idx <= Len(sessions)
    /\ UNCHANGED <<hostVars, mainVars, sessions, idx, successCount, lastErr,
                   spawnFailed, children, timers, restoreLog, exitCode>>
    /\ callAt' = now
    /\ pc' = "launchctl"
    /\ IF req.icon /\ NeedsPermFix(IconPath, mode[IconPath]) /\ host.euid0
         THEN \E chmodOK \in BOOLEAN :
                /\ mode' = IF chmodOK
                             THEN [mode EXCEPT ![IconPath] = NewPerm(IconPath, @)]
                             ELSE mode
                /\ grants' = IF chmodOK THEN grants \cup GrantsFor({IconPath})
                                        ELSE grants
                /\ pending' = {[path |-> IconPath,
                                perm |-> RestorePerm(mode[IconPath],
                                                     NewPerm(IconPath, mode[IconPath])),
                                session |-> idx]}
         ELSE UNCHANGED <<mode, grants, pending>>

\* gui_check_darwin.go:148-155 launchctl returned: the deferred chmod runs on
\* both the error return and the nil return
MacReturn ==
    /\ pc = "launchctl"
    /\ UNCHANGED timeVars
    /\ UNCHANGED <<hostVars, mainVars, sessions, timers, grants, exitCode>>
    /\ pc' = "dispatch"
    /\ mode' = [p \in Paths |->
                  IF \E d \in pending : d.path = p
                    THEN (CHOOSE d \in pending : d.path = p).perm
                    ELSE mode[p]]
    /\ restoreLog' = restoreLog \cup
         {[path |-> d.path, written |-> d.perm, session |-> d.session,
           at |-> now] : d \in pending}
    /\ pending' = {}
    /\ callAt' = -1
    /\ \E ok \in BOOLEAN :
         /\ IF ok
              THEN /\ successCount' = successCount + 1
                   /\ children' = Append(children,
                        [user |-> sessions[idx].user, via |-> "launchctl",
                         argv |-> MacChildArgs(req.icon),
                         session |-> idx, at |-> callAt, ret |-> now])
                   /\ UNCHANGED <<lastErr, spawnFailed>>
              ELSE /\ lastErr' = TRUE
                   /\ spawnFailed' = spawnFailed \cup {idx}
                   /\ UNCHANGED <<successCount, children>>
         /\ idx' = nextIdx(~ok)

\* gui_check_windows.go:119-352 showNotificationAsWindowsUser: PsExec when
\* present and working, else a scheduled task, else an error
LaunchWindows ==
    /\ pc = "dispatch"
    /\ UNCHANGED timeVars
    /\ host.goos = "windows"
    /\ idx <= Len(sessions)
    /\ UNCHANGED <<hostVars, mainVars, permVars, sessions, pc, exitCode>>
    /\ UNCHANGED callAt
    /\ \E how \in {"psexec", "task", "error"} :
         /\ IF how # "error"
              THEN /\ successCount' = successCount + 1
                   /\ children' = Append(children,
                        [user |-> sessions[idx].user, via |-> how,
                         argv |-> WindowsChildArgs(req.icon),
                         session |-> idx, at |-> now, ret |-> now])
                   /\ UNCHANGED <<lastErr, spawnFailed>>
              ELSE /\ lastErr' = TRUE
                   /\ spawnFailed' = spawnFailed \cup {idx}
                   /\ UNCHANGED <<successCount, children>>
         /\ idx' = nextIdx(how = "error")

\* a dispatcher that reports an error as soon as one launch failed
dispatchErr_AnyFailure == Len(sessions) = 0 \/ lastErr

\* showNotificationToUsers returns an error when no session was found, or
\* when no launch succeeded and one failed (gui_check_linux.go:309-311,325-329)
dispatchErr == Len(sessions) = 0 \/ (successCount = 0 /\ lastErr)

\* showNotificationToUsers after its loop (gui_check_linux.go:309-311,325-329
\* and the same lines of the darwin and windows files), and main.go:444-450
DispatchReturn ==
    /\ pc = "dispatch"
    /\ UNCHANGED timeVars
    /\ idx > Len(sessions)
    /\ UNCHANGED <<hostVars, permVars, loopVars, wallSuccess, attempts, results,
                   dispatchCalls, probed, exitCode>>
    /\ guiSuccess' = ~dispatchErr
    /\ pc' = "elevWall"

\* an elevated path whose test of the -gui-only switch is inverted
alsoWall_GuiOnlyInverted ==
    host.goos = "linux" /\ "-gui-only" \in args /\ isWallAvailable

\* an elevated path that broadcasts only when the GUI fan-out failed
alsoWall_OnlyIfGuiFailed ==
    host.goos = "linux" /\ "-gui-only" \notin args /\ isWallAvailable /\ ~guiSuccess

\* main.go:454  "Also sending wall broadcast to terminal sessions"
alsoWall == host.goos = "linux" /\ "-gui-only" \notin args /\ isWallAvailable

\* main.go:452-484 wall broadcast of the elevated path, then the verdict
ElevatedWall ==
    /\ pc = "elevWall"
    /\ UNCHANGED timeVars
    /\ UNCHANGED <<hostVars, permVars, loopVars, guiSuccess, dispatchCalls, probed>>
    /\ \E r \in WallResults :
         LET sendWall == alsoWall
             wallOK   == sendWall /\ r = "nil"
         IN  /\ (~sendWall => r = "nil")
             /\ IF sendWall THEN Attempt("broadcast", r)
                            ELSE UNCHANGED <<attempts, results>>
             /\ wallSuccess' = wallOK
             /\ IF guiSuccess \/ wallOK THEN Exit(0)
                ELSE IF host.goos = "windows" /\ isRunningAsSystem THEN Exit(1)
                ELSE pc' = "probe" /\ UNCHANGED exitCode

\* --------------------------------------------------- main: delivery selector
\* a wall fallback that forgot to ask whether the wall tool exists
wallFallback_NoLookup == host.goos = "linux"

\* main.go:502  the no-GUI fallback is taken on Linux when wall is available
wallFallback == host.goos = "linux" /\ isWallAvailable

\* a selector that prefers the webview renderer whenever it is built in
openglAvailable_WebViewPreferred == isOpenGLAvailable /\ ~isWebViewAvailable

\* main.go:514-517  the probe result that sends the selector to PRIMARY
openglAvailable == isOpenGLAvailable

\* a selector that skips the webview for every Windows process
skipWebView_AllWindows == host.goos = "windows"

\* main.go:522-526  SYSTEM on Windows goes straight to the MessageBox
skipWebView == host.goos = "windows" /\ isRunningAsSystem

\* main.go:499-511 PROBE
ProbeGUI ==
    /\ pc = "probe"
    /\ UNCHANGED timeVars
    /\ UNCHANGED <<hostVars, permVars, loopVars, guiSuccess, wallSuccess,
                   dispatchCalls>>
    /\ probed' = [probed EXCEPT !.gui = IF isGUIAvailable THEN "yes" ELSE "no"]
    /\ IF isGUIAvailable
         THEN pc' = "choose" /\ UNCHANGED <<attempts, results, exitCode>>
       ELSE IF wallFallback
         THEN \E r \in WallResults :
                /\ Attempt("broadcast", r)
                /\ Exit(IF r = "nil" THEN 0 ELSE 1)
       ELSE Exit(1) /\ UNCHANGED <<attempts, results>>

\* main.go:513-554 CHOOSE and DEGRADED
Choose ==
    /\ pc = "choose"
    /\ UNCHANGED timeVars
    /\ UNCHANGED <<hostVars, permVars, loopVars, guiSuccess, wallSuccess,
                   dispatchCalls>>
    /\ probed' = [probed EXCEPT !.opengl = IF isOpenGLAvailable THEN "yes" ELSE "no"]
    /\ IF openglAvailable
         THEN pc' = "primary" /\ UNCHANGED <<attempts, results, exitCode>>
       ELSE IF ~skipWebView /\ isWebViewAvailable
         THEN \E r \in WebViewResults :
                /\ Attempt("secondary", r)
                /\ Exit(IF r = "nil" THEN 0 ELSE 2)
       ELSE IF host.goos = "windows"
         THEN Attempt("minimal", "nil") /\ Exit(0)
       ELSE Exit(1) /\ UNCHANGED <<attempts, results>>

\* main.go:554, 576-688 showNotification: the Fyne window is built and run
PrimaryStart ==
    /\ pc = "primary"
    /\ UNCHANGED timeVars
    /\ UNCHANGED <<hostVars, permVars, loopVars, guiSuccess, wallSuccess,
                   dispatchCalls, probed, exitCode>>
    /\ Attempt("primary", "running")
    /\ pc' = "primaryRunning"

\* main.go:688-689, 555 a.Run() returns after the window closed; main returns
PrimaryClosed ==
    /\ pc = "primaryRunning"
    /\ UNCHANGED timeVars
    /\ UNCHANGED <<hostVars, permVars, loopVars, guiSuccess, wallSuccess,
                   dispatchCalls, probed, attempts>>
    /\ results' = [results EXCEPT ![Len(results)] = "closed"]
    /\ Exit(0)

\* main.go:559-574 Fyne panicked: the deferred recover falls back to the
\* MessageBox on Windows and gives up elsewhere
PrimaryPanic ==
    /\ pc = "primaryRunning"
    /\ UNCHANGED timeVars
    /\ UNCHANGED <<hostVars, permVars, loopVars, guiSuccess, wallSuccess,
                   dispatchCalls, probed>>
    /\ IF host.goos = "windows"
         THEN /\ attempts' = Append(attempts, "minimal")
              /\ results' = Append([results EXCEPT ![Len(results)] = "panic"], "nil")
              /\ Exit(0)
         ELSE /\ attempts' = attempts
              /\ results' = [results EXCEPT ![Len(results)] = "panic"]
              /\ Exit(1)

Next ==
    \/ ForceWall
    \/ WinWebView
    \/ WinBasic
    \/ Elevated
    \/ LaunchLinux
    \/ RestoreFire
    \/ LaunchMac
    \/ MacReturn
    \/ LaunchWindows
    \/ DispatchReturn
    \/ ElevatedWall
    \/ ProbeGUI
    \/ Choose
    \/ PrimaryStart
    \/ PrimaryClosed
    \/ PrimaryPanic

Spec == Init /\ [][Next]_vars

TypeOK ==
    /\ host \in Hosts
    /\ args \subseteq Flags
    /\ pc \in {"forceWall", "winWebView", "winBasic", "elevated", "dispatch",
               "launchctl", "elevWall", "probe", "choose", "primary",
               "primaryRunning", "closing", "exited"}
    /\ exitCode \in {-1, 0, 1, 2}
    /\ (pc = "exited") = (exitCode # -1)
    /\ Len(attempts) = Len(results)
    /\ \A p \in Paths : mode[p] \in 0..511

\* ------------------------------------------- showNotification, second by second
\* The same showNotification with its three timers (zombie prevention,
\* auto-close, and the user) followed on a clock of whole seconds.  A behaviour
\* starts where main calls showNotification (main.go:554) in a process that
\* came straight down main: no override, no dispatch, GUI and OpenGL probes
\* passed.

\* a zombie timeout without the 30 second floor
zombieTimeout_NoFloor(timeout) == timeout + 15

\* main.go:585-588  zombieTimeout := timeout + 15, at least 30
zombieTimeout(timeout) == IF timeout + 15 < 30 THEN 30 ELSE timeout + 15

\* hosts on which main reaches showNotification; the webview build tag and
\* the wall tool are not read on that path and keep one value
ShowHosts ==
    {h \in Hosts :
        /\ CASE h.goos = "linux"   -> h.hasDisplay \/ h.guiHost
             [] h.goos = "darwin"  -> h.guiHost
             [] h.goos = "windows" -> h.guiHost /\ h.glFunctional
             [] OTHER              -> FALSE
        /\ ~h.webviewBuilt /\ ~h.wallOnPath}

ShowInit ==
    /\ args \in SUBSET {"-target-user"}
    /\ host \in ShowHosts
    /\ ~ShouldShow(host, args)
    /\ req \in [timeout : ShowTimeouts, icon : {FALSE}]
    /\ rawSessions = <<>>
    /\ mode0 = DefaultModes
    /\ mode = mode0
    /\ pc = "primary"
    /\ sessions = <<>>
    /\ idx = 0
    /\ callAt = -1
    /\ successCount = 0
    /\ lastErr = FALSE
    /\ guiSuccess = FALSE
    /\ wallSuccess = FALSE
    /\ attempts = <<>>
    /\ results = <<>>
    /\ dispatchCalls = 0
    /\ children = <<>>
    /\ pending = {}
    /\ timers = {}
    /\ grants = {}
    /\ restoreLog = {}
    /\ spawnFailed = {}
    /\ probed = [gui |-> "yes", opengl |-> "yes"]
    /\ exitCode = -1
    /\ NoTimers
    /\ NoText
    /\ NoProbe
    /\ iconDir = IconBesideExe

notTimed == <<hostVars, permVars, loopVars, guiSuccess, wallSuccess,
              dispatchCalls, probed>>

\* main.go:576-688 showNotification up to a.Run(): on Windows the zombie
\* goroutine is started (:582-613), with a timeout the auto-close goroutine
\* (:671-678); whether Fyne then works or hangs invisibly is the host's choice
ShowWindow ==
    /\ pc = "primary"
    /\ UNCHANGED <<notTimed, exitCode, closedAt, closedBy, zombieFires>>
    /\ Attempt("primary", "running")
    /\ pc' = "primaryRunning"
    /\ now' = 0
    /\ zombieAt' = IF host.goos = "windows" THEN zombieTimeout(req.timeout) ELSE -1
    /\ autoAt' = IF req.timeout > 0 THEN req.timeout ELSE -1
    /\ hung' \in BOOLEAN

\* the auto-close goroutine can close the window: Fyne handles its DoAndWait
autoCloseDue == autoAt # -1 /\ ~hung /\ closedBy = "none"

\* a second passes; a sleeping goroutine whose time has come runs first
Tick ==
    /\ pc \in {"primaryRunning", "fallback"}
    /\ now < MaxClock
    /\ zombieAt # -1 => now < zombieAt
    /\ autoCloseDue => now < autoAt
    /\ now' = now + 1
    /\ UNCHANGED <<notTimed, pc, attempts, results, exitCode, zombieAt, autoAt,
                   hung, closedAt, closedBy, zombieFires>>

\* main.go:626-628 the button (or the window's close box): w.Close()
UserClose ==
    /\ pc = "primaryRunning"
    /\ ~hung
    /\ closedAt' = now
    /\ closedBy' = "user"
    /\ pc' = "closing"
    /\ UNCHANGED <<notTimed, attempts, results, exitCode, now, zombieAt, autoAt,
                   hung, zombieFires>>

\* main.go:671-678 the auto-close goroutine wakes after timeout seconds and
\* closes the window through fyne.DoAndWait
AutoClose ==
    /\ pc = "primaryRunning"
    /\ autoCloseDue
    /\ now = autoAt
    /\ closedAt' = now
    /\ closedBy' = "timer"
    /\ pc' = "closing"
    /\ UNCHANGED <<notTimed, attempts, results, exitCode, now, zombieAt, autoAt,
                   hung, zombieFires>>

\* a main that waits for the zombie goroutine before it returns
RunReturns_JoinsZombie ==
    /\ pc = "closing"
    /\ now' = IF zombieAt # -1 /\ zombieAt > now THEN zombieAt ELSE now
    /\ results' = [results EXCEPT ![Len(results)] = "closed"]
    /\ Exit(0)
    /\ UNCHANGED <<notTimed, attempts, zombieAt, autoAt, hung, closedAt,
                   closedBy, zombieFires>>

\* main.go:688-689, 554-555 the last window closed: a.Run() returns,
\* showNotification returns, main returns and the process ends with status 0
RunReturns ==
    /\ pc = "closing"
    /\ results' = [results EXCEPT ![Len(results)] = "closed"]
    /\ Exit(0)
    /\ UNCHANGED <<notTimed, attempts, timeVars>>

\* main.go:590-611 the zombie goroutine wakes after zombieTimeout seconds,
\* asks Fyne to quit and calls os.Exit(0) 100 ms later, whatever state the
\* window is in (a main that returns within those 100 ms also exits with 0)
ZombieExit ==
    /\ pc \in {"primaryRunning", "closing", "fallback"}
    /\ zombieAt # -1
    /\ now = zombieAt
    /\ zombieFires' = zombieFires + 1
    /\ results' = [results EXCEPT ![Len(results)] = "killed"]
    /\ Exit(0)
    /\ UNCHANGED <<notTimed, attempts, now, zombieAt, autoAt, hung, closedAt,
                   closedBy>>

\* main.go:559-568 Fyne panicked on Windows, before the zombie goroutine was
\* started (app.New, :576) or after it: the deferred recover opens the
\* MessageBox, which stays until the user answers it
\* (gui_opengl_windows.go:140-172)
FallbackShown ==
    /\ host.goos = "windows"
    /\ pc \in {"primary", "primaryRunning"}
    /\ IF pc = "primary"
         THEN /\ attempts' = attempts \o <<"primary", "minimal">>
              /\ results' = results \o <<"panic", "running">>
         ELSE /\ attempts' = Append(attempts, "minimal")
              /\ results' = Append([results EXCEPT ![Len(results)] = "panic"],
                                   "running")
    /\ pc' = "fallback"
    /\ UNCHANGED <<notTimed, exitCode, timeVars>>

\* the user answers the MessageBox: showWindowsMessageBox returns nil, the
\* recover function and main return (main.go:567-569, 555)
FallbackClosed ==
    /\ pc = "fallback"
    /\ results' = [results EXCEPT ![Len(results)] = "nil"]
    /\ Exit(0)
    /\ UNCHANGED <<notTimed, attempts, timeVars>>

ShowNext ==
    \/ ShowWindow
    \/ Tick
    \/ UserClose
    \/ AutoClose
    \/ RunReturns
    \/ ZombieExit
    \/ PrimaryPanic
    \/ FallbackShown
    \/ FallbackClosed

ShowSpec == ShowInit /\ [][ShowNext]_vars

\* ==================================================== the dispatcher, timed
\* The elevated path with a clock: main is followed from the elevated block
\* (main.go:434) on a host where it dispatches, and time passes only while
\* main waits for an external command.
DispatchInit ==
    /\ args \in SUBSET {"-gui-only"}
    /\ host \in Hosts
    /\ ReachesDispatch(host, args)
    /\ host.goos \in {"linux", "darwin"} => ~host.webviewBuilt
    /\ req \in [timeout : Timeouts, icon : BOOLEAN]
    /\ rawSessions \in RawSessionsOf(host, args)
    /\ mode0 \in ModesOf(host, args, req)
    /\ mode = mode0
    /\ pc = "elevated"
    /\ sessions = <<>>
    /\ idx = 0
    /\ callAt = -1
    /\ successCount = 0
    /\ lastErr = FALSE
    /\ guiSuccess = FALSE
    /\ wallSuccess = FALSE
    /\ attempts = <<>>
    /\ results = <<>>
    /\ dispatchCalls = 0
    /\ children = <<>>
    /\ pending = {}
    /\ timers = {}
    /\ grants = {}
    /\ restoreLog = {}
    /\ spawnFailed = {}
    /\ probed = [gui |-> "unread", opengl |-> "unread"]
    /\ exitCode = -1
    /\ NoTimers
    /\ NoText
    /\ NoProbe
    /\ iconDir = IconBesideExe

\* main waits for an external command: launchctl, which runs the child in
\* the foreground until it ends (gui_check_darwin.go:147-148), or the wall
\* tool of the elevated broadcast (main.go:460)
Blocked ==
    /\ pc = "launchctl" \/ (pc = "elevWall" /\ alsoWall)
    /\ now < MaxWait
    /\ now' = now + 1
    /\ UNCHANGED <<hostVars, permVars, loopVars, mainVars, windowVars, pc,
                   exitCode>>

\* a restore goroutine whose sleep is over writes the captured mode
\* (gui_check_linux.go:369-376, 403-410, 469-477)
RestoreDue ==
    /\ pc # "exited"
    /\ UNCHANGED timeVars
    /\ \E t \in timers : t.due <= now /\ Restore(t)

DispatchNext ==
    \/ Elevated
    \/ LaunchLinux
    \/ RestoreDue
    \/ LaunchMac
    \/ MacReturn
    \/ LaunchWindows
    \/ DispatchReturn
    \/ ElevatedWall
    \/ Blocked

DispatchSpec == DispatchInit /\ [][DispatchNext]_vars

\* ===================================================== the capability checks
\* main.go:131-368 on a host that passed the Windows 7 gate (main.go:121-129):
\* the flags that end the process before any delivery is considered
CheckFlags == {"-check-gui", "-check-opengl", "-check-wall"}
EarlyFlags == {"-version", "-help", "-checkupdate", "-check-deps"}

\* the check path reads the platform, the display facts and the wall tool;
\* the graphics stack may be broken on any platform
CheckHosts ==
    {[h EXCEPT !.glFunctional = g] :
        h \in {x \in Hosts : ~x.webviewBuilt /\ ~x.envTargetUser /\ ~x.isSystem
                                /\ ~x.isAdmin /\ ~x.euid0},
        g \in BOOLEAN}

CheckInit ==
    /\ args \in SUBSET (CheckFlags \cup EarlyFlags \cup {"-force-wall"})
    /\ host \in CheckHosts
    /\ req = [timeout |-> 5, icon |-> FALSE]
    /\ rawSessions \in
         (IF host.goos = "linux"
            THEN {<<>>, <<[user |-> "alice", graphical |-> TRUE, meta |-> TRUE]>>}
            ELSE {<<>>})
    /\ mode0 = DefaultModes
    /\ mode = mode0
    /\ pc = "version"
    /\ sessions = <<>>
    /\ idx = 0
    /\ callAt = -1
    /\ successCount = 0
    /\ lastErr = FALSE
    /\ guiSuccess = FALSE
    /\ wallSuccess = FALSE
    /\ attempts = <<>>
    /\ results = <<>>
    /\ dispatchCalls = 0
    /\ children = <<>>
    /\ pending = {}
    /\ timers = {}
    /\ grants = {}
    /\ restoreLog = {}
    /\ spawnFailed = {}
    /\ probed = [gui |-> "unread", opengl |-> "unread"]
    /\ exitCode = -1
    /\ NoTimers
    /\ NoText
    /\ NoProbe
    /\ iconDir = IconBesideExe

checkFrame ==
    UNCHANGED <<hostVars, permVars, loopVars, timeVars, guiSuccess, wallSuccess,
                attempts, results, dispatchCalls>>

\* main.go:131-163 and 271-279: -version is looked for in os.Args before the
\* flags are defined, then the help switches; both exit 0
VersionOrHelp ==
    /\ pc = "version"
    /\ checkFrame
    /\ UNCHANGED probed
    /\ IF args \cap {"-version", "-help"} # {}
         THEN Exit(0)
         ELSE pc' = "update" /\ UNCHANGED exitCode

\* main.go:281-310: the update check exits 0 whatever it found
CheckUpdate ==
    /\ pc = "update"
    /\ checkFrame
    /\ UNCHANGED probed
    /\ IF "-checkupdate" \in args
         THEN Exit(0)
         ELSE pc' = "deps" /\ UNCHANGED exitCode

\* main.go:312-320: checkLinuxDependencies exits 0 when every library is
\* found and 1 otherwise (gui_check_linux.go:862-870); other platforms exit 1
CheckDeps ==
    /\ pc = "deps"
    /\ checkFrame
    /\ UNCHANGED probed
    /\ IF "-check-deps" \in args
         THEN \E allOk \in BOOLEAN :
                /\ (host.goos # "linux" => ~allOk)
                /\ Exit(IF allOk THEN 0 ELSE 1)
         ELSE pc' = "checkGUI" /\ UNCHANGED exitCode

\* a check that reports success whatever the probe said
checkExit_AlwaysZero(available) == 0

\* main.go:323-368: os.Exit(0) in the branch of an available capability,
\* os.Exit(1) in the other
checkExit(available) == IF available THEN 0 ELSE 1

\* main.go:322-335 -check-gui
CheckGUI ==
    /\ pc = "checkGUI"
    /\ checkFrame
    /\ IF "-check-gui" \in args
         THEN /\ probed' = [probed EXCEPT !.gui = IF isGUIAvailable THEN "yes" ELSE "no"]
              /\ Exit(checkExit(isGUIAvailable))
         ELSE pc' = "checkOpenGL" /\ UNCHANGED <<exitCode, probed>>

\* main.go:337-350 -check-opengl
CheckOpenGL ==
    /\ pc = "checkOpenGL"
    /\ checkFrame
    /\ IF "-check-opengl" \in args
         THEN /\ probed' = [probed EXCEPT !.opengl = IF isOpenGLAvailable THEN "yes" ELSE "no"]
              /\ Exit(checkExit(isOpenGLAvailable))
         ELSE pc' = "checkWall" /\ UNCHANGED <<exitCode, probed>>

\* main.go:352-368 -check-wall; without it main goes on to the overrides
CheckWall ==
    /\ pc = "checkWall"
    /\ checkFrame
    /\ UNCHANGED probed
    /\ IF "-check-wall" \in args
         THEN Exit(checkExit(isWallAvailable))
         ELSE pc' = "forceWall" /\ UNCHANGED exitCode

CheckNext ==
    \/ VersionOrHelp
    \/ CheckUpdate
    \/ CheckDeps
    \/ CheckGUI
    \/ CheckOpenGL
    \/ CheckWall

CheckSpec == CheckInit /\ [][CheckNext]_vars

\* ================================================= the Windows OpenGL probe
\* gui_opengl_windows.go:68-137 isOpenGLAvailable, one action per call. The
\* host decides which calls succeed (wgl.env); the probe is followed from its
\* first call to its return.
GLInit ==
    /\ args = {}
    /\ host \in {h \in WindowsHosts : ~h.envTargetUser /\ ~h.isSystem /\ ~h.isAdmin
                                       /\ ~h.webviewBuilt /\ h.guiHost}
    /\ req = [timeout |-> 5, icon |-> FALSE]
    /\ rawSessions = <<>>
    /\ mode0 = DefaultModes
    /\ mode = mode0
    /\ pc = "Load"
    /\ sessions = <<>>
    /\ idx = 0
    /\ callAt = -1
    /\ successCount = 0
    /\ lastErr = FALSE
    /\ guiSuccess = FALSE
    /\ wallSuccess = FALSE
    /\ attempts = <<>>
    /\ results = <<>>
    /\ dispatchCalls = 0
    /\ children = <<>>
    /\ pending = {}
    /\ timers = {}
    /\ grants = {}
    /\ restoreLog = {}
    /\ spawnFailed = {}
    /\ probed = [gui |-> "unread", opengl |-> "unread"]
    /\ exitCode = -1
    /\ NoTimers
    /\ NoText
    /\ iconDir = IconBesideExe
    /\ \E e \in [GLStepSet \cup {"unbind"} -> BOOLEAN] :
         /\ host.glFunctional = (\A c \in GLStepSet : e[c])
         /\ wgl = [env |-> e, calls |-> <<>>, dc |-> "none", ctx |-> "none",
                   current |-> FALSE, ret |-> "pending"]

glFrame ==
    UNCHANGED <<host, args, req, rawSessions, mode0, osArgs, held, iconDir, permVars,
                loopVars, mainVars, timeVars, exitCode>>

\* a probe that carries on after a failed call
glNext_IgnoreFailure(k, ok) ==
    IF k < Len(GLSteps) THEN GLSteps[k + 1] ELSE "unbind"

\* where the probe goes after call k: the next call, or `return false` at
\* the first failure (gui_opengl_windows.go:70-129)
glNext(k, ok) ==
    IF ~ok THEN "glReturn"
    ELSE IF k < Len(GLSteps) THEN GLSteps[k + 1] ELSE "unbind"

\* call k is made and the probe moves on by its result
GLCall(k, w) ==
    /\ pc = GLSteps[k]
    /\ glFrame
    /\ wgl' = [w EXCEPT !.calls = Append(wgl.calls, GLSteps[k])]
    /\ pc' = glNext(k, wgl.env[GLSteps[k]])

\* gui_opengl_windows.go:70-73 opengl32Dll.Load()
GLLoad == GLCall(1, wgl)

\* gui_opengl_windows.go:76-79 wglCreateContext.Find()
GLFind == GLCall(2, wgl)

\* gui_opengl_windows.go:83-88 GetDC(0), release deferred when it succeeded
GLGetDC ==
    GLCall(3, [wgl EXCEPT !.dc = IF wgl.env["GetDC"] THEN "held" ELSE "none"])

\* gui_opengl_windows.go:103-107 ChoosePixelFormat
GLChoosePixelFormat == GLCall(4, wgl)

\* gui_opengl_windows.go:110-114 SetPixelFormat
GLSetPixelFormat == GLCall(5, wgl)

\* gui_opengl_windows.go:117-122 wglCreateContext, delete deferred when it
\* succeeded
GLCreateContext ==
    GLCall(6, [wgl EXCEPT !.ctx = IF wgl.env["wglCreateContext"]
                                    THEN "created" ELSE "none"])

\* gui_opengl_windows.go:125-129 wglMakeCurrent(hdc, hglrc)
GLMakeCurrent ==
    GLCall(7, [wgl EXCEPT !.current = wgl.env["wglMakeCurrent"]])

\* gui_opengl_windows.go:132 wglMakeCurrent(hdc, 0); its result is not read
GLUnbind ==
    /\ pc = "unbind"
    /\ glFrame
    /\ wgl' = [wgl EXCEPT !.calls = Append(@, "unbind"),
                          !.current = IF wgl.env["unbind"] THEN FALSE ELSE @]
    /\ pc' = "glReturn"

\* a return that runs no deferred call
runDefers_Forgotten(w) == w

\* the deferred calls run last-in first-out: wglDeleteContext, which also
\* unbinds a context that is still current, then ReleaseDC
\* (gui_opengl_windows.go:88, 122)
runDefers(w) ==
    LET d == IF w.ctx = "created"
               THEN [w EXCEPT !.calls = Append(@, "wglDeleteContext"),
                              !.ctx = "deleted", !.current = FALSE]
               ELSE w
    IN  IF d.dc = "held"
          THEN [d EXCEPT !.calls = Append(@, "ReleaseDC"), !.dc = "released"]
          ELSE d

\* gui_opengl_windows.go:72-136 return: true after the unbinding, false after
\* a failed call
GLReturn ==
    /\ pc = "glReturn"
    /\ glFrame
    /\ wgl' = [runDefers(wgl) EXCEPT
                 !.ret = IF wgl.calls # <<>> /\ wgl.calls[Len(wgl.calls)] = "unbind"
                           THEN "true" ELSE "false"]
    /\ pc' = "glDone"

GLNext ==
    \/ GLLoad
    \/ GLFind
    \/ GLGetDC
    \/ GLChoosePixelFormat
    \/ GLSetPixelFormat
    \/ GLCreateContext
    \/ GLMakeCurrent
    \/ GLUnbind
    \/ GLReturn

GLSpec == GLInit /\ [][GLNext]_vars

\* ======================================================== the request texts
\* the characters followed through the flags: '+', ' ', '%', the hex digits
\* '2' and 'B', and the three characters the escapes over these digits add
ArgChars == {"+", " ", "%", "2", "B"}
AllChars == ArgChars \cup {"\"", "<B2>", "<BB>"}

\* net/url ishex and unhex, on the characters above
ishex(c) == c \in {"2", "B"}
unhex(c) == IF c = "2" THEN 2 ELSE 11

\* the character with byte value b
ByteChar(b) ==
    CASE b = 34  -> "\""
      [] b = 43  -> "+"
      [] b = 178 -> "<B2>"
      [] b = 187 -> "<BB>"

\* net/url unescape, first pass: a '%' not followed by two hex digits is an
\* EscapeError
EscapeError(s) ==
    \E i \in 1..Len(s) :
        /\ s[i] = "%"
        /\ (i + 2 > Len(s) \/ ~ishex(s[i + 1]) \/ ~ishex(s[i + 2]))

\* net/url unescape, second pass in query mode: %hh becomes the byte, '+'
\* becomes a space
RECURSIVE unescapeFrom(_, _)
unescapeFrom(s, i) ==
    IF i > Len(s) THEN <<>>
    ELSE IF s[i] = "%"
      THEN <<ByteChar(16 * unhex(s[i + 1]) + unhex(s[i + 2]))>>
             \o unescapeFrom(s, i + 3)
    ELSE IF s[i] = "+" THEN <<" ">> \o unescapeFrom(s, i + 1)
    ELSE <<s[i]>> \o unescapeFrom(s, i + 1)

QueryUnescape(s) ==
    IF EscapeError(s) THEN [err |-> TRUE, val |-> <<>>]
                      ELSE [err |-> FALSE, val |-> unescapeFrom(s, 1)]

\* main.go:239-253: the decoded text replaces the flag value, a failed
\* decoding leaves the flag value as it was
decodeFlag(s) ==
    LET r == QueryUnescape(s) IN IF r.err THEN s ELSE r.val

Digits == <<"0", "1", "2", "3", "4", "5", "6", "7", "8", "9">>

\* fmt.Sprintf("%d", n)
RECURSIVE Itoa(_)
Itoa(n) ==
    IF n < 0 THEN <<"-">> \o Itoa(-n)
    ELSE IF n < 10 THEN <<Digits[n + 1]>>
    ELSE Itoa(n \div 10) \o <<Digits[(n % 10) + 1]>>

DigitVal(c) == CHOOSE d \in 0..9 : Digits[d + 1] = c

\* the flag package's integer parsing of a decimal value
RECURSIVE Atoi(_)
Atoi(s) ==
    IF s[1] = "-" THEN -Atoi(Tail(s))
    ELSE IF Len(s) = 1 THEN DigitVal(s[1])
    ELSE 10 * Atoi(SubSeq(s, 1, Len(s) - 1)) + DigitVal(s[Len(s)])

\* main.go:174-179 flag.Parse followed by main.go:237-253: what a process
\* holds once its command line is processed
ParseFlags(a) ==
    [set     |-> TRUE,
     title   |-> decodeFlag(a.title),
     message |-> decodeFlag(a.message),
     button  |-> decodeFlag(a.button),
     timeout |-> Atoi(a.timeout),
     width   |-> Atoi(a.width),
     height  |-> Atoi(a.height)]

\* gui_check_linux.go:487-495 (gui_check_darwin.go:92-103,
\* gui_check_windows.go:151-157): the request on the child's command line
ChildCmdArgs(r) ==
    [given   |-> TRUE,
     title   |-> r.title,
     message |-> r.message,
     button  |-> r.button,
     timeout |-> Itoa(r.timeout),
     width   |-> Itoa(r.width),
     height  |-> Itoa(r.height)]

\* flag values the operator may give: every title of up to MaxLen characters,
\* three short messages and button texts, and a few integers
Titles      == SeqUpTo(ArgChars, MaxLen)
ShortTexts  == {<<>>, <<"+">>, <<"%">>}
ReqTimeouts == {-1, 0, 5}
ReqWidths   == {400, 600}
ReqHeights  == {250}

RequestInit ==
    /\ args = {}
    /\ host \in {h \in LinuxHosts : ReachesDispatch(h, {}) /\ ~h.webviewBuilt
                                     /\ h.wallOnPath /\ h.glFunctional}
    /\ req = [timeout |-> 5, icon |-> FALSE]
    /\ rawSessions = <<>>
    /\ mode0 = DefaultModes
    /\ mode = mode0
    /\ pc = "flags"
    /\ sessions = <<>>
    /\ idx = 0
    /\ callAt = -1
    /\ successCount = 0
    /\ lastErr = FALSE
    /\ guiSuccess = FALSE
    /\ wallSuccess = FALSE
    /\ attempts = <<>>
    /\ results = <<>>
    /\ dispatchCalls = 0
    /\ children = <<>>
    /\ pending = {}
    /\ timers = {}
    /\ grants = {}
    /\ restoreLog = {}
    /\ spawnFailed = {}
    /\ probed = [gui |-> "unread", opengl |-> "unread"]
    /\ exitCode = -1
    /\ NoTimers
    /\ NoProbe
    /\ iconDir = IconBesideExe
    /\ held = [parent |-> [set |-> FALSE], child |-> [set |-> FALSE]]
    /\ \E t \in Titles, m \in ShortTexts, b \in ShortTexts,
          to \in ReqTimeouts, w \in ReqWidths, h \in ReqHeights :
         osArgs = [parent |-> [given |-> TRUE, title |-> t, message |-> m,
                               button |-> b, timeout |-> Itoa(to),
                               width |-> Itoa(w), height |-> Itoa(h)],
                   child  |-> [given |-> FALSE]]

textFrame ==
    UNCHANGED <<host, args, req, rawSessions, mode0, wgl, iconDir, permVars, loopVars,
                mainVars, timeVars, exitCode>>

\* the parent processes its flags (main.go:174-253)
ParentFlags ==
    /\ pc = "flags"
    /\ held' = [held EXCEPT !.parent = ParseFlags(osArgs.parent)]
    /\ pc' = "serialize"
    /\ UNCHANGED osArgs
    /\ textFrame

\* the dispatcher writes the request it holds onto the child's command line
\* (gui_check_linux.go:487-495)
Serialize ==
    /\ pc = "serialize"
    /\ osArgs' = [osArgs EXCEPT !.child = ChildCmdArgs(held.parent)]
    /\ pc' = "childFlags"
    /\ UNCHANGED held
    /\ textFrame

\* the child is the same program: it processes its flags the same way
ChildFlags ==
    /\ pc = "childFlags"
    /\ held' = [held EXCEPT !.child = ParseFlags(osArgs.child)]
    /\ pc' = "parsed"
    /\ UNCHANGED osArgs
    /\ textFrame

RequestNext ==
    \/ ParentFlags
    \/ Serialize
    \/ ChildFlags

RequestSpec == RequestInit /\ [][RequestNext]_vars

\* ====================================================== the wall functions
\* isWallAvailable and broadcastWallMessage called on their own, as
\* broadcast_test.go does, on every platform and whether or not a wall tool
\* is installed
WallHosts ==
    {[h EXCEPT !.wallOnPath = w] :
        h \in {x \in Hosts : ~x.webviewBuilt /\ ~x.envTargetUser /\ ~x.isSystem
                                /\ ~x.isAdmin},
        w \in BOOLEAN}

WallInit ==
    /\ args = {}
    /\ host \in WallHosts
    /\ req \in [timeout : {0, 5}, icon : {FALSE}]
    /\ rawSessions = <<>>
    /\ mode0 = DefaultModes
    /\ mode = mode0
    /\ pc = "wallProbe"
    /\ sessions = <<>>
    /\ idx = 0
    /\ callAt = -1
    /\ successCount = 0
    /\ lastErr = FALSE
    /\ guiSuccess = FALSE
    /\ wallSuccess = FALSE
    /\ attempts = <<>>
    /\ results = <<>>
    /\ dispatchCalls = 0
    /\ children = <<>>
    /\ pending = {}
    /\ timers = {}
    /\ grants = {}
    /\ restoreLog = {}
    /\ spawnFailed = {}
    /\ probed = [gui |-> "unread", opengl |-> "unread", wall |-> "unread"]
    /\ exitCode = -1
    /\ NoTimers
    /\ NoProbe
    /\ iconDir = IconBesideExe
    /\ osArgs = [parent |-> [given |-> FALSE], child |-> [given |-> FALSE]]
    /\ \E t \in ShortTexts, m \in ShortTexts :
         held = [parent |-> [set |-> TRUE, title |-> t, message |-> m],
                 child  |-> [set |-> FALSE]]

\* broadcastWallMessage: the stub of broadcast_other.go returns an error and
\* runs nothing; the Linux function (unnamed/part_000:15-58) returns an error
\* when wall is not on the path, else runs wall and returns its verdict
broadcastWallMessage(runOK) ==
    IF host.goos # "linux" THEN "stub"
    ELSE IF ~host.wallOnPath THEN "notfound"
    ELSE IF runOK THEN "nil" ELSE "error"

\* broadcast_test.go:8-25 a call of isWallAvailable
WallProbe ==
    /\ pc = "wallProbe"
    /\ probed' = [probed EXCEPT !.wall = IF isWallAvailable THEN "yes" ELSE "no"]
    /\ pc' = "wallSend"
    /\ UNCHANGED <<hostVars, permVars, loopVars, timeVars, guiSuccess,
                   wallSuccess, attempts, results, dispatchCalls, exitCode>>

\* broadcast_test.go:27-45 a call of broadcastWallMessage
WallSend ==
    /\ pc = "wallSend"
    /\ \E runOK \in BOOLEAN : Attempt("broadcast", broadcastWallMessage(runOK))
    /\ pc' = "wallDone"
    /\ UNCHANGED <<hostVars, permVars, loopVars, timeVars, guiSuccess,
                   wallSuccess, dispatchCalls, probed, exitCode>>

WallNext ==
    \/ WallProbe
    \/ WallSend

WallSpec == WallInit /\ [][WallNext]_vars

\* ================================================================ properties
Exited == pc = "exited"

\* no channel override on the command line (spec 4.2 ENTRY)
NoOverride == args \cap {"-force-wall", "-win-webview", "-win-basic"} = {}

Count(ch) == Cardinality({k \in 1..Len(attempts) : attempts[k] = ch})

Attempted(ch) == \E k \in 1..Len(attempts) : attempts[k] = ch

\* the relaxation g was followed by a restoring chmod of the same launch
Restored(g) ==
    \E r \in restoreLog : r.path = g.path /\ r.session = g.session

\* C1: every child process the dispatcher launched carries -target-user on
\* its command line (violated: the sudo and launchctl command lines omit it)
C1_ChildrenCarryMarker ==
    \A k \in 1..Len(children) : "-target-user" \in children[k].argv

\* C2: a process started with -target-user never calls
\* showNotificationToUsers (violated: only the Windows build reads the marker)
C2_MarkedNeverDispatches ==
    "-target-user" \in args => dispatchCalls = 0

\* C3: once the process has terminated, every permission relaxation it
\* applied has been followed by its restoring chmod (violated: the restores
\* are goroutines that die with the process, or are never started)
C3_GrantsRevertedAtExit ==
    Exited => \A g \in grants : Restored(g)

\* C4: a relaxation applied for a session whose launch then failed is still
\* restored by the time the process ends (violated on Linux: the error return
\* comes before the restores are started)
C4_RestoredAfterFailedSpawn ==
    \A g \in grants :
        (Exited /\ g.session \in spawnFailed) =>
            (Restored(g) /\ mode[g.path] = g.before)

C6_NoGuiMeansBroadcastOrFail ==
    (Exited /\ ~shouldShowToOtherUsers /\ NoOverride /\ ~isGUIAvailable) =>
        /\ \A k \in 1..Len(attempts) : attempts[k] \notin GuiChannels
        /\ Attempted("broadcast") <=> isWallAvailable
        /\ ~isWallAvailable => exitCode = 1

C6_Witness ==
    /\ Exited /\ ~shouldShowToOtherUsers /\ NoOverride /\ ~isGUIAvailable
    /\ isWallAvailable
    /\ host.webviewBuilt
    /\ attempts = <<"broadcast">>

\* C7 as stated: with a reachable GUI, no working OpenGL and a webview build,
\* a non-override invocation attempts the Secondary UI and never the Primary
C7_Original ==
    (Exited /\ NoOverride /\ probed.gui = "yes" /\ probed.opengl = "no"
       /\ isWebViewAvailable) =>
        (Attempted("secondary") /\ ~Attempted("primary"))

\* C7 amended: the same, except that a process running as SYSTEM on Windows
\* skips the Secondary UI and attempts the Minimal UI instead
C7_SecondaryUnlessSystem ==
    (Exited /\ NoOverride /\ probed.gui = "yes" /\ probed.opengl = "no"
       /\ isWebViewAvailable) =>
        /\ ~Attempted("primary")
        /\ ~isRunningAsSystem => (Attempted("secondary") /\ ~Attempted("minimal"))
        /\ isRunningAsSystem => (Attempted("minimal") /\ ~Attempted("secondary"))

C7_Witness ==
    /\ Exited /\ NoOverride /\ probed.gui = "yes" /\ probed.opengl = "no"
    /\ isWebViewAvailable /\ ~isRunningAsSystem
    /\ attempts = <<"secondary">>

\* the i-th attempt is a graphical channel reached after Primary failed
AfterPrimaryPanic(i) ==
    \E j \in 1..(i - 1) : attempts[j] = "primary" /\ results[j] = "panic"

\* Secondary and Minimal are attempted only after the OpenGL probe failed or
\* the Primary UI panicked
DegradedOnlyAfterFailure ==
    \A i \in 1..Len(attempts) :
        attempts[i] \in {"secondary", "minimal"} =>
            (probed.opengl = "no" \/ AfterPrimaryPanic(i))

\* C8 as stated: with a reachable GUI and a passing OpenGL probe the Primary
\* UI is the first channel the invocation attempts
C8_Original ==
    (NoOverride /\ probed.gui = "yes" /\ probed.opengl = "yes") =>
        /\ attempts # <<>> => attempts[1] = "primary"
        /\ DegradedOnlyAfterFailure

\* C8 amended: the Primary UI is the first graphical channel attempted; the
\* only attempt that can precede it is the failed wall broadcast of the
\* elevated path
C8_PrimaryFirstGraphical ==
    (NoOverride /\ probed.gui = "yes" /\ probed.opengl = "yes") =>
        /\ \A i \in 1..Len(attempts) :
             attempts[i] # "primary" =>
                \/ \E j \in 1..(i - 1) : attempts[j] = "primary"
                \/ (attempts[i] = "broadcast" /\ results[i] = "error"
                      /\ shouldShowToOtherUsers)
        /\ DegradedOnlyAfterFailure

C8_Witness ==
    /\ NoOverride /\ probed.gui = "yes" /\ probed.opengl = "yes"
    /\ attempts = <<"primary", "minimal">>
    /\ results = <<"panic", "nil">>

\* C9: within one process no channel is attempted more than once (violated:
\* the elevated path that falls through sends the wall broadcast again)
C9_EachChannelOnce ==
    \A ch \in Channels : Count(ch) <= 1

\* C10: when the Primary UI panicked and the webview renderer is built in
\* (and the process is not SYSTEM, for which DEGRADED skips it), a Minimal UI
\* attempt is preceded by a Secondary UI attempt (violated: the recover handler
\* goes straight to the MessageBox)
C10_PanicThenSecondaryFirst ==
    \A i \in 1..Len(attempts) :
        (attempts[i] = "minimal" /\ AfterPrimaryPanic(i)
           /\ isWebViewAvailable /\ ~isRunningAsSystem) =>
            \E j \in 1..(i - 1) : attempts[j] = "secondary"

\* DEGRADED: the selector found the OpenGL probe failing (main.go:517)
Degraded == probed.opengl = "no"

\* C11: in DEGRADED, a Secondary UI attempt that failed is followed by a
\* Minimal UI attempt on Windows, and by a failing exit where there is no
\* native dialog (violated: the webview backend has no error return, it can
\* only fail by panicking, and that panic ends the process)
C11_SecondaryFailureThenMinimal ==
    \A i \in 1..Len(attempts) :
        (Exited /\ Degraded /\ attempts[i] = "secondary" /\ results[i] # "nil") =>
            IF host.goos = "windows"
              THEN i < Len(attempts) /\ attempts[i + 1] = "minimal"
              ELSE exitCode # 0

\* C12: a panic inside a render backend never terminates the process: no
\* attempt that panicked leaves the process dead of an unrecovered panic
\* (violated: only showNotification recovers, the webview calls do not)
C12_NoPanicTerminates ==
    \A i \in 1..Len(attempts) : results[i] = "panic" => exitCode # 2

\* C13: on Windows an invocation given -win-basic (and no other override)
\* attempts no channel but the Minimal UI (violated: an Administrator whose
\* dispatch launched nobody falls through to the ordinary selector)
C13_WinBasicOnlyMinimal ==
    (host.goos = "windows" /\ "-win-basic" \in args
       /\ args \cap {"-force-wall", "-win-webview"} = {}) =>
        \A k \in 1..Len(attempts) : attempts[k] = "minimal"

\* an override on the command line names a channel this build or host lacks
UnavailableOverride ==
    \/ "-force-wall" \in args /\ ~(host.goos = "linux" /\ host.wallOnPath)
    \/ "-win-webview" \in args /\ ~(host.goos = "windows" /\ host.webviewBuilt)
    \/ "-win-basic" \in args /\ host.goos # "windows"

\* the process failed at once: no channel attempt, no dispatch, exit code 1
FailedAtOnce ==
    /\ attempts = <<>>
    /\ dispatchCalls = 0
    /\ pc \in {"forceWall", "winWebView", "winBasic", "exited"}
    /\ Exited => exitCode = 1

\* C14 as stated: an override naming an unavailable channel makes the process
\* exit with failure at once, with no channel attempted
C14_Original == UnavailableOverride => FailedAtOnce

\* C14 amended: the same, except when a satisfiable -force-wall is also given
\* (it is served first), and except on the Windows elevated path, where
\* -win-webview is not checked by the parent but handed to the children
C14_UnavailableOverrideFatal ==
    (/\ UnavailableOverride
     /\ ~("-force-wall" \in args /\ host.goos = "linux" /\ host.wallOnPath)
     /\ ~(host.goos = "windows" /\ shouldShowToOtherUsers
            /\ "-force-wall" \notin args)) => FailedAtOnce

C14_Witness ==
    /\ host.goos = "linux" /\ "-force-wall" \in args /\ ~host.wallOnPath
    /\ Exited /\ exitCode = 1 /\ attempts = <<>>

\* the process called showNotificationToUsers (main.go:436-444)
Dispatched == dispatchCalls > 0

\* main left the elevated block for the ordinary delivery path (main.go:483)
FellThrough == Dispatched /\ probed.gui # "unread"

BroadcastSucceeded ==
    \E i \in 1..Len(attempts) : attempts[i] = "broadcast" /\ results[i] = "nil"

\* C18 as stated: an elevated invocation exits 0 exactly when a child launch
\* succeeded or the parent-level broadcast succeeded
C18_Original ==
    (Exited /\ Dispatched) =>
        (exitCode = 0 <=> (successCount > 0 \/ BroadcastSucceeded))

\* C18 amended: a launched child or a successful elevated broadcast ends the
\* invocation with exit 0 at the aggregation point; when both failed, SYSTEM on
\* Windows exits 1 there, and every other process goes on to the ordinary
\* delivery path, whose outcome decides the exit code
C18_AggregateThenFallThrough ==
    (Exited /\ Dispatched) =>
        /\ (successCount > 0 \/ wallSuccess) => (exitCode = 0 /\ ~FellThrough)
        /\ (successCount = 0 /\ ~wallSuccess /\ isRunningAsSystem) =>
              (exitCode = 1 /\ ~FellThrough)
        /\ (successCount = 0 /\ ~wallSuccess /\ ~isRunningAsSystem) => FellThrough
        /\ FellThrough =>
              (exitCode = 0 <=>
                 (attempts # <<>> /\ results[Len(results)] \in {"nil", "closed"}))

C18_Witness ==
    /\ Exited /\ Dispatched
    /\ successCount > 0 /\ lastErr /\ ~wallSuccess
    /\ exitCode = 0

\* C19 as stated: in an elevated invocation no broadcast is sent once a child
\* launch has succeeded
C19_Original ==
    (Dispatched /\ successCount > 0) => ~Attempted("broadcast")

\* C19 amended: when main leaves the elevated block (by exit or by falling
\* through), the broadcast has been sent exactly if the platform is Linux, the
\* wall tool is present and -gui-only is absent, whatever the children did
C19_BroadcastAlongsideChildren ==
    (Dispatched /\ ~FellThrough /\ pc \in {"probe", "exited"}) =>
        /\ Attempted("broadcast") <=>
             (host.goos = "linux" /\ host.wallOnPath /\ "-gui-only" \notin args)
        /\ Count("broadcast") <= 1

C19_Witness ==
    /\ Dispatched /\ Exited
    /\ successCount > 0
    /\ attempts = <<"broadcast">>

\* C20 as stated: an elevated invocation that found no session, on a host
\* with the wall tool, sends the broadcast and exits 0 when it succeeded
C20_Original ==
    (Exited /\ Dispatched /\ sessions = <<>> /\ isWallAvailable) =>
        /\ Attempted("broadcast")
        /\ BroadcastSucceeded => exitCode = 0

\* C20 amended: the same for an invocation without -gui-only; the broadcast is
\* then the first channel attempted, and its success ends the process with 0
C20_NoSessionsBroadcast ==
    (Dispatched /\ sessions = <<>> /\ isWallAvailable /\ "-gui-only" \notin args
       /\ pc \notin {"dispatch", "elevWall"}) =>
        /\ attempts # <<>>
        /\ attempts[1] = "broadcast"
        /\ results[1] = "nil" => (Exited /\ exitCode = 0 /\ Len(attempts) = 1)

C20_Witness ==
    /\ Dispatched /\ sessions = <<>> /\ isWallAvailable
    /\ "-gui-only" \notin args
    /\ attempts = <<"broadcast">> /\ results = <<"nil">>
    /\ Exited /\ exitCode = 0

\* max(timeout + 15, 30), the deadline the claims name
WatchdogDue == IF req.timeout + 15 > 30 THEN req.timeout + 15 ELSE 30

\* C15 as stated: on every platform a Primary UI that neither closes nor fails
\* is not left running beyond max(timeout + 15, 30) seconds
C15_Original ==
    pc = "primaryRunning" => now <= WatchdogDue

\* C15 amended: on Windows the window is never left running beyond
\* max(timeout + 15, 30) seconds, and a forced exit happens at exactly that
\* second with status 0; on the other platforms there is no watchdog
C15_WindowsWatchdog ==
    /\ host.goos = "windows" =>
         /\ pc = "primaryRunning" => now <= WatchdogDue
         /\ zombieFires > 0 => (Exited /\ exitCode = 0 /\ now = WatchdogDue)
    /\ host.goos # "windows" => (zombieAt = -1 /\ zombieFires = 0)

C15_Witness ==
    /\ host.goos = "windows" /\ hung /\ req.timeout = 20
    /\ Exited /\ zombieFires = 1 /\ now = 35
    /\ closedBy = "none"

\* C16: the zombie goroutine forces at most one exit, and a window closed
\* before its deadline (by the user or by the auto-close) ends the process in
\* the same second, with status 0 and without the watchdog having fired
C16_WatchdogOnceNoDelay ==
    /\ zombieFires <= 1
    /\ (Exited /\ closedAt # -1 /\ (zombieAt = -1 \/ closedAt < zombieAt)) =>
          (now = closedAt /\ zombieFires = 0 /\ exitCode = 0)

C16_Witness ==
    /\ host.goos = "windows" /\ zombieAt = 30
    /\ closedBy = "timer" /\ closedAt = 5
    /\ Exited /\ now = 5 /\ exitCode = 0

\* C17: with -timeout 0 a Primary UI that is shown is closed by nobody but
\* the user, and the process is not terminated before that (violated: on
\* Windows the zombie goroutine exits the process after 30 seconds)
C17_NoTimeoutStaysUntilUser ==
    (req.timeout = 0 /\ Attempted("primary") /\ ~hung) =>
        /\ closedBy # "timer"
        /\ zombieFires = 0
        /\ Exited => (closedBy = "user" \/ results[1] = "panic")

\* C21: an invocation given -gui-only (and not -force-wall as well) sends no
\* wall broadcast (violated: the no-GUI fallback of the ordinary path does not
\* read the switch)
C21_GuiOnlyNoBroadcast ==
    ("-gui-only" \in args /\ "-force-wall" \notin args) => ~Attempted("broadcast")

\* C22: with -force-wall on Linux the wall broadcast is the only delivery
\* action: no GUI channel, no dispatch, at most one broadcast, sent exactly
\* when the wall tool exists, and the exit code is 0 if it succeeded, else 1
C22_ForceWallOnlyBroadcast ==
    ("-force-wall" \in args /\ host.goos = "linux") =>
        /\ \A k \in 1..Len(attempts) : attempts[k] = "broadcast"
        /\ Count("broadcast") <= 1
        /\ dispatchCalls = 0 /\ children = <<>>
        /\ Exited =>
             /\ Attempted("broadcast") <=> host.wallOnPath
             /\ exitCode = (IF BroadcastSucceeded THEN 0 ELSE 1)

C22_Witness ==
    /\ "-force-wall" \in args /\ host.goos = "linux"
    /\ host.euid0 /\ ~host.hasDisplay
    /\ attempts = <<"broadcast">> /\ results = <<"error">>
    /\ Exited /\ exitCode = 1

\* C23: the dispatcher launches at most one child per account (violated: one
\* child is launched per listed session, with no de-duplication by user)
C23_OneChildPerAccount ==
    \A i, j \in 1..Len(children) :
        children[i].user = children[j].user => i = j

\* C24: a session whose launch metadata could not be resolved is not among
\* the dispatch targets (violated: macOS keeps the console user with an empty
\* UID, and Linux substitutes ":0" for a display it could not find)
C24_UnresolvedSkipped ==
    Dispatched => \A k \in 1..Len(sessions) : sessions[k].meta

\* the bits a relaxation added to a mode
AddedBits(g) == g.after - g.before

LaunchedFor == {children[k].session : k \in 1..Len(children)} \cup spawnFailed

\* the dispatch loop has run to its end
LoopDone == Dispatched /\ pc \notin {"dispatch", "launchctl"}

\* C25: when the dispatch loop has ended, a launch was attempted for every
\* discovered session, whatever the earlier launches returned
C25_FailureDoesNotAbort ==
    LoopDone => LaunchedFor = 1..Len(sessions)

\* a failed launch for the first session was followed by a successful launch
\* for the second
C25_Witness ==
    /\ LoopDone
    /\ 1 \in spawnFailed
    /\ \E k \in 1..Len(children) : children[k].session = 2

\* the fields of a NotificationRequest that travel on the child's command line
SameRequest(a, b) ==
    /\ a.title = b.title
    /\ a.message = b.message
    /\ a.button = b.button
    /\ a.timeout = b.timeout
    /\ a.width = b.width
    /\ a.height = b.height

\* C26: the request a dispatched child holds after processing its command
\* line equals the request the parent held after processing its own
C26_DispatchPreservesRequest ==
    held.child.set => SameRequest(held.child, held.parent)

\* C26, the part that does hold: the integers survive the command line
C26_IntegersPreserved ==
    held.child.set =>
        /\ held.child.timeout = held.parent.timeout
        /\ held.child.width = held.parent.width
        /\ held.child.height = held.parent.height

\* the child launched for session k, if its launch succeeded
ChildrenOf(k) == {children[i] : i \in {j \in 1..Len(children) : children[j].session = k}}

\* C27: on every platform the launch call for a session returns in the second
\* it was made, without waiting for the child's window to be closed
C27_LaunchReturnsAtOnce ==
    \A i \in 1..Len(children) : children[i].ret = children[i].at

\* C27 where the code keeps it: a child started through sudo, PsExec or a
\* scheduled task is not waited for
C27_DetachedLaunchers ==
    \A i \in 1..Len(children) :
        children[i].via # "launchctl" => children[i].ret = children[i].at

\* C28: when the dispatcher launches the child of a session, no restore of an
\* earlier session has run and none is due yet
C28_RevertDoesNotDelayDispatch ==
    \A i \in 1..Len(children) :
        /\ \A t \in timers :
              t.session < children[i].session => t.due > children[i].at
        /\ \A r \in restoreLog :
              r.session < children[i].session => r.at > children[i].at

\* the second session's child was launched while the first session's restore
\* was still asleep, and that restore has run since
C28_Witness ==
    /\ host.goos = "linux"
    /\ \E c \in ChildrenOf(2) : c.at = 0
    /\ \E r \in restoreLog : r.session = 1 /\ r.at >= restoreDue(0)

\* the restoring chmods of paths that the same launch had relaxed
RestoresOfGrants ==
    {r \in restoreLog :
        \E g \in grants : g.path = r.path /\ g.session = r.session}

\* C30: on every platform that relaxes permissions, a restore runs no earlier
\* than timeout + grace seconds after the launch of that session's child
C30_RestoreAfterLifetime ==
    \A r \in RestoresOfGrants : \A c \in ChildrenOf(r.session) :
        r.at >= c.at + req.timeout + RestoreGrace

\* C30 where the code keeps it: the restore goroutines of the Linux launcher
C30_LinuxRestoreAfterGrace ==
    host.goos = "linux" =>
        \A r \in RestoresOfGrants : \A c \in ChildrenOf(r.session) :
            r.at >= c.at + req.timeout + RestoreGrace

\* the capability a check flag asks about
Capability(f) ==
    CASE f = "-check-gui"    -> isGUIAvailable
      [] f = "-check-opengl" -> isOpenGLAvailable
      [] f = "-check-wall"   -> isWallAvailable

NoDelivery == attempts = <<>> /\ dispatchCalls = 0 /\ children = <<>>

\* C31 as stated: with a check flag the process exits 0 or 1 by the probed
\* capability and delivers nothing, whatever other flags are present
C31_Original ==
    (Exited /\ args \cap CheckFlags # {}) =>
        /\ NoDelivery
        /\ \E f \in args \cap CheckFlags :
              exitCode = (IF Capability(f) THEN 0 ELSE 1)

\* the check flag main looks at first (main.go:323, 338, 353)
FirstCheck ==
    IF "-check-gui" \in args THEN "-check-gui"
    ELSE IF "-check-opengl" \in args THEN "-check-opengl"
    ELSE "-check-wall"

\* C31: with a check flag the process always ends without any delivery; when
\* no version, help, update or dependency flag precedes it, the exit code is
\* 0 if the capability of the first check flag is available and 1 otherwise
C31_CheckExitsByCapability ==
    args \cap CheckFlags # {} =>
        /\ NoDelivery
        /\ pc # "forceWall"
        /\ (Exited /\ args \cap EarlyFlags = {}) =>
              exitCode = (IF Capability(FirstCheck) THEN 0 ELSE 1)

\* -check-wall with -force-wall on a Linux host without the wall tool: exit 1
\* and no broadcast attempt
C31_Witness ==
    /\ args = {"-check-wall", "-force-wall"}
    /\ host.goos = "linux" /\ ~host.wallOnPath
    /\ Exited /\ exitCode = 1 /\ attempts = <<>>

\* the probe calls made so far, without the clean-up calls
ProbeCalls == SelectSeq(wgl.calls, LAMBDA c : c \in GLStepSet)

\* C32: the Windows probe makes its calls in the order load, find, get DC,
\* choose format, set format, create context, make current; a failed call is
\* the last one made and the result is false; the result is true only when
\* all seven calls were made and succeeded
C32_HandshakeInOrder ==
    /\ Len(ProbeCalls) <= Len(GLSteps)
    /\ \A k \in 1..Len(ProbeCalls) :
          /\ ProbeCalls[k] = GLSteps[k]
          /\ k < Len(ProbeCalls) => wgl.env[GLSteps[k]]
    /\ wgl.ret = "true" =>
          Len(ProbeCalls) = Len(GLSteps) /\ \A c \in GLStepSet : wgl.env[c]
    /\ wgl.ret = "false" =>
          ProbeCalls # <<>> /\ ~wgl.env[ProbeCalls[Len(ProbeCalls)]]
    /\ wgl.ret # "pending" => (wgl.ret = "true") = host.glFunctional

\* the pixel format could be chosen but not set: four calls failed at the
\* fifth, result false
C32_Witness ==
    /\ wgl.ret = "false"
    /\ ProbeCalls = SubSeq(GLSteps, 1, 5)
    /\ ~wgl.env["SetPixelFormat"]

\* C40: when the probe has returned, a device context it obtained is
\* released, a GL context it created is deleted, and none is left current
C40_ProbeLeavesNothing ==
    wgl.ret # "pending" =>
        /\ wgl.dc # "held"
        /\ wgl.ctx # "created"
        /\ ~wgl.current
        /\ (wgl.env["GetDC"] /\ Len(ProbeCalls) >= 3) => wgl.dc = "released"
        /\ (wgl.env["wglCreateContext"] /\ Len(ProbeCalls) >= 6)
              => wgl.ctx = "deleted"

\* the context was made current, the unbinding call failed, and the deferred
\* delete still left nothing current
C40_Witness ==
    /\ wgl.ret = "true"
    /\ ~wgl.env["unbind"]
    /\ wgl.dc = "released" /\ wgl.ctx = "deleted" /\ ~wgl.current

\* C33: off Windows the OpenGL probe says yes in every environment, also
\* where the graphics stack does not work
C33_OpenGLTrueOffWindows ==
    (host.goos # "windows" /\ probed.opengl # "unread") =>
        /\ probed.opengl = "yes"
        /\ Exited => exitCode = 0

\* -check-opengl on a Linux host whose graphics stack is broken: exit 0
C33_Witness ==
    /\ host.goos = "linux" /\ ~host.glFunctional
    /\ probed.opengl = "yes"
    /\ Exited /\ exitCode = 0

\* C34: off Linux isWallAvailable says no and broadcastWallMessage returns
\* its error without running anything, whatever the texts and the timeout
C34_NoWallOffLinux ==
    host.goos # "linux" =>
        /\ probed.wall \in {"unread", "no"}
        /\ \A k \in 1..Len(results) : results[k] = "stub"

\* a macOS host that has a wall tool: the probe said no and the call
\* returned the stub's error
C34_Witness ==
    /\ host.goos = "darwin" /\ host.wallOnPath
    /\ probed.wall = "no"
    /\ results = <<"stub">>

\* some channel reported success: a GUI channel or the broadcast returned
\* nil, the Fyne window ran until it was closed, or a child launch succeeded
SomeChannelSucceeded ==
    \/ \E i \in 1..Len(results) : results[i] \in {"nil", "closed"}
    \/ successCount > 0

\* C35: the process exits 0 exactly when some channel reported success, and
\* 1 in every other case
C35_ExitZeroIffDelivered ==
    Exited => /\ exitCode \in {0, 1}
              /\ (exitCode = 0) = SomeChannelSucceeded

\* C36: the watchdog armed for the Primary UI never ends the process while a
\* fallback channel is shown after the Primary UI's recovered panic
C36_WatchdogSparesFallback ==
    \A i \in 1..Len(results) : results[i] = "killed" => attempts[i] = "primary"

\* the channel overrides in an order of examination, with the channel of each
OverridesGiven == args \cap {"-force-wall", "-win-webview", "-win-basic"}

ChannelOfOverride(f) ==
    CASE f = "-force-wall" -> "broadcast"
      [] f = "-win-webview" -> "secondary"
      [] f = "-win-basic" -> "minimal"

FirstGiven(order) ==
    order[CHOOSE i \in 1..Len(order) :
            /\ order[i] \in args
            /\ \A j \in 1..(i - 1) : order[j] \notin args]

\* several overrides are on the command line of a process that acts on them
\* itself (an elevated Windows dispatcher hands them to its children instead)
SeveralOverrides ==
    /\ Cardinality(OverridesGiven) >= 2
    /\ ~(host.goos = "windows" /\ shouldShowToOtherUsers)

\* C37 as stated: with several overrides the channel is the one of the first
\* override in the order minimal-only, secondary-only, broadcast-only
C37_Original ==
    SeveralOverrides =>
        \A k \in 1..Len(attempts) :
            attempts[k] =
              ChannelOfOverride(FirstGiven(<<"-win-basic", "-win-webview", "-force-wall">>))

\* C37: with several overrides the only channel attempted is the one of the
\* first override in the order broadcast-only, secondary-only, minimal-only
C37_OverridesInCodeOrder ==
    SeveralOverrides =>
        \A k \in 1..Len(attempts) :
            attempts[k] =
              ChannelOfOverride(FirstGiven(<<"-force-wall", "-win-webview", "-win-basic">>))

C37_Witness ==
    /\ host.goos = "windows"
    /\ {"-win-webview", "-win-basic"} \subseteq args
    /\ SeveralOverrides
    /\ attempts = <<"secondary">>
    /\ Exited

\* every path the child must open lets "other" in under the modes m: r-x on
\* the executable and on the directories, r on the icon handed to the child
OpenToOther(m) ==
    /\ BitAnd(m[ExePath], \o005) = \o005
    /\ \A d \in DirPaths : BitAnd(m[d], \o005) = \o005
    /\ req.icon =>
         /\ BitAnd(m[IconPath], \o004) = \o004
         /\ iconDir.own => BitAnd(iconDir.mode, \o005) = \o005

\* the chmod calls of this launch, if any were needed, succeeded
ChmodsSucceeded == NeedFix = {} \/ mode' # mode

\* C38: at every spawn by a root dispatcher on Linux whose chmod calls
\* succeeded, the executable, the icon and every directory holding either of
\* them are open to "other" (violated: the directories of an icon given by an
\* absolute path are never looked at)
C38_OpenToOtherAtSpawn ==
    [][(/\ host.goos = "linux"
        /\ host.euid0
        /\ Len(children') > Len(children)
        /\ ChmodsSucceeded) => OpenToOther(mode')]_vars

\* the host facts a child reads in its own shouldShowToOtherUsers: sudo -u
\* gives it the target user's uid and env sets DISPLAY to the session's
\* display, never empty (gui_check_linux.go:177-180, 504-523); launchctl
\* asuser moves it into the user's bootstrap context and no call in
\* gui_check_darwin.go:92-146 changes its credentials, so it keeps the euid of
\* the dispatcher; a Windows child is told apart by its command line alone
ChildHost(c) ==
    CASE host.goos = "linux"  -> [host EXCEPT !.euid0 = FALSE, !.hasDisplay = TRUE]
      [] host.goos = "darwin" -> host
      [] OTHER                -> host

\* the child c, running main() on its own command line, calls
\* showNotificationToUsers in its turn
ChildDispatches(c) == ReachesDispatch(ChildHost(c), c.argv)

\* C39: no process launched by the dispatcher launches dispatcher children
\* itself, on any platform (violated on macOS: the child is still root, its
\* command line has no marker and the macOS build would not read one)
C39_ChildrenNeverDispatch ==
    \A k \in 1..Len(children) : ~ChildDispatches(children[k])

====
